---------------------------- MODULE Spec2Model ----------------------------
(***************************************************************************)
(* Model of social_auth/db/base.py: the UserSocialAuthMixin operations on  *)
(* identity records, OpenID associations and nonces, the token refresh,    *)
(* the expiration inference and the username cleaning.                     *)
(*                                                                         *)
(* Each group of operations has its own specification over the shared      *)
(* variables; the variables of the other groups stay at their idle values. *)
(***************************************************************************)
EXTENDS Integers, Sequences, FiniteSets, TLC

VARIABLES
    nonces,          \* Nonce table: set of [server_url, timestamp, salt]
    nonce_log,       \* use_nonce calls so far: [args, ret, before, after]
    social_auths,    \* UserSocialAuth table: set of [id, user, provider, uid]
    social_last,     \* last identity-record call and what it returned
    expire_in,       \* expiration_datetime input: [extra_data, now, utcoffset]
    expire_out,      \* expiration_datetime result
    associations,    \* Association table
    assoc_next_id,   \* next primary key of the Association table
    assoc_last,      \* last association call and what it returned
    extra_data,      \* self.extra_data of the record refresh_token runs on
    backend,         \* what get_backend() returns for the record's provider
    saves,           \* number of self.save() calls
    refresh_last,    \* last refresh_token call
    username,        \* clean_username input
    cleaned,         \* clean_username result chain
    clean_calls      \* number of clean_username applications

vars == << nonces, nonce_log, social_auths, social_last, expire_in, expire_out,
           associations, assoc_next_id, assoc_last, extra_data, backend, saves,
           refresh_last, username, cleaned, clean_calls >>

None == "None"

\* ------------------------------------------------------------------------
\* Idle values of each group of variables
\* ------------------------------------------------------------------------
NonceIdle == nonces = {} /\ nonce_log = << >>

SocialIdle == social_auths = {} /\ social_last = [op |-> "none"]

ExpireIdle == expire_in = [idle |-> TRUE] /\ expire_out = [called |-> FALSE]

AssocIdle == associations = {} /\ assoc_next_id = 1 /\ assoc_last = [op |-> "none"]

RefreshIdle ==
    /\ extra_data = << >>
    /\ backend = [kind |-> "none"]
    /\ saves = 0
    /\ refresh_last = [called |-> FALSE]

CleanIdle == username = << >> /\ cleaned = << >> /\ clean_calls = 0

NonceVars == << nonces, nonce_log >>
SocialVars == << social_auths, social_last >>
ExpireVars == << expire_in, expire_out >>
AssocVars == << associations, assoc_next_id, assoc_last >>
RefreshVars == << extra_data, backend, saves, refresh_last >>
CleanVars == << username, cleaned, clean_calls >>

\* ========================================================================
\* Nonce store: use_nonce
\* ========================================================================
NonceServers == {"https://op1", "https://op2"}
NonceTimestamps == {100, 200}
NonceSalts == {"", "x"}
MaxNonceCalls == 4

NonceTriples == [server_url : NonceServers, timestamp : NonceTimestamps,
                 salt : NonceSalts]

\* Nonce.objects.create(...) in place of get_or_create(...)
use_nonce_always_creates(store, server_url, timestamp, salt) ==
    [store |-> store \cup {[server_url |-> server_url, timestamp |-> timestamp,
                            salt |-> salt]},
     ret |-> TRUE]

\* Nonce.objects.get_or_create(server_url=, timestamp=, salt=)[1]
use_nonce(store, server_url, timestamp, salt) ==
    LET found == {n \in store : /\ n.server_url = server_url
                                /\ n.timestamp = timestamp
                                /\ n.salt = salt}
    IN  IF found # {}
        THEN [store |-> store, ret |-> FALSE]
        ELSE [store |-> store \cup {[server_url |-> server_url,
                                     timestamp |-> timestamp, salt |-> salt]},
              ret |-> TRUE]

UseNonce ==
    /\ Len(nonce_log) < MaxNonceCalls
    /\ \E t \in NonceTriples :
         LET r == use_nonce(nonces, t.server_url, t.timestamp, t.salt)
         IN  /\ nonces' = r.store
             /\ nonce_log' = Append(nonce_log, [args |-> t, ret |-> r.ret,
                                                before |-> nonces,
                                                after |-> r.store])
    /\ UNCHANGED << SocialVars, ExpireVars, AssocVars, RefreshVars, CleanVars >>

InitNonce == NonceIdle /\ SocialIdle /\ ExpireIdle /\ AssocIdle /\ RefreshIdle
             /\ CleanIdle

NextNonce == UseNonce

SpecNonce == InitNonce /\ [][NextNonce]_vars

\* C1: starting from an empty nonce store, a use_nonce call returns true
\* exactly when no earlier call had the same (server_url, timestamp, salt)
\* triple, so each triple gets true once, on its first call; every later call
\* with that triple returns false and leaves the nonce store unchanged.
NonceFirstUseOnly ==
    \A i \in 1..Len(nonce_log) :
        LET earlier == \E j \in 1..(i - 1) : nonce_log[j].args = nonce_log[i].args
        IN  /\ nonce_log[i].ret = ~earlier
            /\ earlier => nonce_log[i].after = nonce_log[i].before
            /\ Cardinality({j \in 1..i : /\ nonce_log[j].args = nonce_log[i].args
                                         /\ nonce_log[j].ret}) = 1

\* A triple used three times, between uses of another triple.
NonceReplayed ==
    \E i, j, k \in 1..Len(nonce_log) :
        /\ i < j /\ j < k
        /\ nonce_log[i].args = nonce_log[k].args
        /\ nonce_log[j].args # nonce_log[i].args
        /\ \E l \in 1..Len(nonce_log) : l > k /\ nonce_log[l].args = nonce_log[i].args


\* ========================================================================
\* Username cleaning: CLEAN_USERNAME_REGEX and clean_username
\* ========================================================================
\* Strings are sequences of code points.  The sample alphabet:
\*   33 '!'  43 '+'  44 ','  45 '-'  46 '.'  47 '/'  58 ':'  59 ';'
\*   61 '='  63 '?'  64 '@'  95 '_'  97 'a'  126 '~'
Alphabet == {33, 43, 44, 45, 46, 47, 58, 59, 61, 63, 64, 95, 97, 126}
MaxLen == 3
MaxCleanCalls == 2

Usernames == UNION {[1..n -> Alphabet] : n \in 0..MaxLen}

\* \w: letters, digits and the underscore
IsWordChar(c) ==
    \/ (48 <= c /\ c <= 57)
    \/ (65 <= c /\ c <= 90)
    \/ (97 <= c /\ c <= 122)
    \/ c = 95

\* The set negated by the character class [^\w.@+-_]: the class items are
\* \w, '.', '@' and the range from '+' (43) to '_' (95).
InCleanClass(c) ==
    \/ IsWordChar(c)
    \/ c = 46
    \/ c = 64
    \/ (43 <= c /\ c <= 95)

\* CLEAN_USERNAME_REGEX matches at c: a maximal run of characters outside
\* the class.
CleanRegexMatches(c) == ~InCleanClass(c)

RECURSIVE SkipRun(_)
\* The rest of s after the run of matching characters s starts with.
SkipRun(s) ==
    IF s = << >> \/ ~CleanRegexMatches(Head(s)) THEN s ELSE SkipRun(Tail(s))

RECURSIVE RegexSubAll(_)
\* CLEAN_USERNAME_REGEX.sub('', s): every match replaced by ''.
RegexSubAll(s) ==
    IF s = << >> THEN << >>
    ELSE IF CleanRegexMatches(Head(s)) THEN RegexSubAll(SkipRun(s))
    ELSE << Head(s) >> \o RegexSubAll(Tail(s))

RECURSIVE RegexSubFirst(_)
\* CLEAN_USERNAME_REGEX.sub('', s, 1): only the first match replaced.
RegexSubFirst(s) ==
    IF s = << >> THEN << >>
    ELSE IF CleanRegexMatches(Head(s)) THEN SkipRun(s)
    ELSE << Head(s) >> \o RegexSubFirst(Tail(s))

clean_username_first_match(value) == RegexSubFirst(value)

clean_username(value) == RegexSubAll(value)

CleanUsername ==
    /\ clean_calls < MaxCleanCalls
    /\ cleaned' = Append(cleaned,
                         clean_username(IF cleaned = << >> THEN username
                                        ELSE cleaned[Len(cleaned)]))
    /\ clean_calls' = clean_calls + 1
    /\ UNCHANGED << username, NonceVars, SocialVars, ExpireVars, AssocVars,
                    RefreshVars >>

InitClean ==
    /\ username \in Usernames
    /\ cleaned = << >>
    /\ clean_calls = 0
    /\ NonceIdle /\ SocialIdle /\ ExpireIdle /\ AssocIdle /\ RefreshIdle

NextClean == CleanUsername

SpecClean == InitClean /\ [][NextClean]_vars

\* The permitted username set of the claim: word characters and . @ + -
Permitted(c) == IsWordChar(c) \/ c \in {46, 64, 43, 45}

StripUnpermitted(s) == SelectSeq(s, Permitted)

\* C8: clean_username returns the input with exactly the characters outside
\* the permitted set (word characters, '.', '@', '+', '-') removed, the rest
\* kept in order; in particular no ',', '/', ':', ';', '=', '?' survives.
CleanStripsUnpermitted ==
    Len(cleaned) >= 1 => cleaned[1] = StripUnpermitted(username)

\* C9: cleaning is idempotent, and a username with no character outside the
\* permitted set is returned unchanged.
CleanIdempotent ==
    /\ \A i \in 2..Len(cleaned) : cleaned[i] = cleaned[i - 1]
    /\ (Len(cleaned) >= 1 /\ \A k \in 1..Len(username) : Permitted(username[k]))
           => cleaned[1] = username

\* A username with two separate runs of stripped characters, cleaned twice.
CleanedTwiceTwoRuns ==
    /\ Len(cleaned) >= 2
    /\ Len(username) = 3
    /\ CleanRegexMatches(username[1])
    /\ ~CleanRegexMatches(username[2])
    /\ CleanRegexMatches(username[3])
    /\ cleaned[2] = << username[2] >>


\* ========================================================================
\* Expiration inference: expiration_datetime
\* ========================================================================
\* Times are whole seconds.  now is the epoch time of the call, utcoffset the
\* local timezone's offset from UTC, both read from the clock by the code.
Nows == {1350000000, 1350003000}
UtcOffsets == {0 - 18000, 0, 3600}

NoneResult == [t |-> "None"]
Timedelta(seconds) == [t |-> "timedelta", seconds |-> seconds]

IntValue(v) == [t |-> "int", v |-> v]
StrValue(s) == [t |-> "str", s |-> s]
FloatValue(tenths) == [t |-> "float", tenths |-> tenths]
NoneValue == [t |-> "none"]

\* Values a provider may have left under 'expires'.
ExpiresValues ==
    {IntValue(v) : v \in {0 - 5, 0, 3600}
                       \cup {n + d : n \in Nows, d \in {0, 1, 5000}}}
    \cup {StrValue(s) : s \in {<< "6", "0" >>, << "-", "7" >>,
                               << " ", "4", "2", " " >>, << "a", "b", "c" >>,
                               << >>, << "1", "2", ".", "5" >>, << "+" >>,
                               << "1", "3", "5", "0", "0", "0", "5", "0", "0", "0" >>}}
    \cup {FloatValue(125), FloatValue(0 - 5), NoneValue}

\* extra_data: a dict, as a function from its keys
ExpireExtraData ==
    {<< >>, [k \in {"access_token"} |-> StrValue(<< "t" >>)]}
    \cup {[k \in {"expires"} |-> v] : v \in ExpiresValues}
    \cup {[k \in {"expires", "access_token"} |->
              IF k = "expires" THEN v ELSE StrValue(<< "t" >>)] : v \in {IntValue(3600)}}

DigitOf(c) ==
    CASE c = "0" -> 0 [] c = "1" -> 1 [] c = "2" -> 2 [] c = "3" -> 3
      [] c = "4" -> 4 [] c = "5" -> 5 [] c = "6" -> 6 [] c = "7" -> 7
      [] c = "8" -> 8 [] c = "9" -> 9 [] OTHER -> 0 - 1

RECURSIVE StripLeft(_)
StripLeft(s) == IF s # << >> /\ Head(s) = " " THEN StripLeft(Tail(s)) ELSE s

RECURSIVE StripRight(_)
StripRight(s) ==
    IF s # << >> /\ s[Len(s)] = " " THEN StripRight(SubSeq(s, 1, Len(s) - 1)) ELSE s

RECURSIVE DigitsValue(_)
\* The value of a nonempty sequence of decimal digits.
DigitsValue(s) ==
    IF Len(s) = 1 THEN DigitOf(s[1])
    ELSE 10 * DigitsValue(SubSeq(s, 1, Len(s) - 1)) + DigitOf(s[Len(s)])

AllDigits(s) == s # << >> /\ \A i \in 1..Len(s) : DigitOf(s[i]) >= 0

\* int(<str>): surrounding whitespace, an optional sign, decimal digits;
\* anything else raises ValueError.
IntOfStr(s) ==
    LET body == StripRight(StripLeft(s))
        signed == body # << >> /\ Head(body) \in {"+", "-"}
        digits == IF signed THEN Tail(body) ELSE body
    IN  IF AllDigits(digits)
        THEN [ok |-> TRUE,
              v |-> IF signed /\ Head(body) = "-" THEN 0 - DigitsValue(digits)
                    ELSE DigitsValue(digits)]
        ELSE [ok |-> FALSE, v |-> 0]

\* int(<float>) truncates toward zero.
IntOfFloat(tenths) ==
    IF tenths >= 0 THEN tenths \div 10 ELSE 0 - ((0 - tenths) \div 10)

\* int(self.extra_data['expires']) with its except (ValueError, TypeError)
IntOf(value) ==
    CASE value.t = "int" -> [ok |-> TRUE, v |-> value.v]
      [] value.t = "str" -> IntOfStr(value.s)
      [] value.t = "float" -> [ok |-> TRUE, v |-> IntOfFloat(value.tenths)]
      [] OTHER -> [ok |-> FALSE, v |-> 0]

\* datetime.now(): the naive local wall-clock time, as seconds
datetime_now(now, utcoffset) == now + utcoffset

\* time.mktime(<local time tuple>): back to epoch seconds
mktime(local, utcoffset) == local - utcoffset

\* datetime.utcfromtimestamp(ts): the naive UTC wall-clock time, as seconds
utcfromtimestamp(ts) == ts

expiration_datetime(data, clock_now, utcoffset) ==
    IF data # << >> /\ "expires" \in DOMAIN data
    THEN LET conv == IntOf(data["expires"])
             expires == conv.v
             now == datetime_now(clock_now, utcoffset)
             now_timestamp == mktime(now, utcoffset)
         IN  IF ~conv.ok THEN NoneResult
             ELSE IF expires > now_timestamp
                  THEN Timedelta(utcfromtimestamp(expires) - now)
                  ELSE Timedelta(expires)
    ELSE NoneResult

ExpirationDatetime ==
    /\ ~expire_out.called
    /\ expire_out' = [called |-> TRUE,
                      ret |-> expiration_datetime(expire_in.extra_data,
                                                  expire_in.now,
                                                  expire_in.utcoffset)]
    /\ UNCHANGED << expire_in, NonceVars, SocialVars, AssocVars, RefreshVars,
                    CleanVars >>

InitExpire ==
    /\ expire_in \in [extra_data : ExpireExtraData, now : Nows,
                      utcoffset : UtcOffsets]
    /\ expire_out = [called |-> FALSE]
    /\ NonceIdle /\ SocialIdle /\ AssocIdle /\ RefreshIdle /\ CleanIdle

NextExpire == ExpirationDatetime

SpecExpire == InitExpire /\ [][NextExpire]_vars

\* C3: for a stored 'expires' value v (after conversion to an integer) and
\* epoch time now, in any local timezone: the result is a duration of v - now
\* seconds when v > now, of v seconds when v <= now, and None when extra_data
\* is empty, has no 'expires' key or the value does not convert.
ExpirationAsClaimed ==
    expire_out.called =>
        LET data == expire_in.extra_data
            has == data # << >> /\ "expires" \in DOMAIN data
            conv == IF has THEN IntOf(data["expires"]) ELSE [ok |-> FALSE, v |-> 0]
        IN  expire_out.ret =
                IF ~has \/ ~conv.ok THEN NoneResult
                ELSE IF conv.v > expire_in.now
                     THEN Timedelta(conv.v - expire_in.now)
                     ELSE Timedelta(conv.v)


\* ========================================================================
\* Token refresh: refresh_token
\* ========================================================================
MaxRefreshCalls == 2

\* Stored token values: None, the empty string, a token
StoredValues == {None, "", "old"}
RefreshKeys == {"refresh_token", "access_token", "expires"}

\* What backend.AUTH_BACKEND.extra_data(user, uid, response) may return
ReturnedValues == {"", "new"}
ReturnedKeys == {"access_token", "expires"}

Dicts(keys, values) == UNION {[ks -> values] : ks \in SUBSET keys}

\* get_backends().get(self.provider): no backend, a backend without a
\* refresh flow, a backend with one
Backends == {[kind |-> "none"], [kind |-> "plain"], [kind |-> "refresh"]}

\* hasattr(backend, 'refresh_token')
HasRefreshFlow(bk) == bk.kind = "refresh"

\* dict.get(key)
DictGet(d, key) == IF key \in DOMAIN d THEN d[key] ELSE None

\* truth value of a stored value
Truthy(v) == v # None /\ v # ""

\* a or b
PyOr(a, b) == IF Truthy(a) THEN a ELSE b

\* dict.update(other)
DictUpdate(d, other) ==
    [k \in (DOMAIN d) \cup (DOMAIN other) |->
        IF k \in DOMAIN other THEN other[k] ELSE d[k]]

\* data.get('access_token') or data.get('refresh_token')
refresh_token_prefers_access(data, bk, returned) ==
    IF ("refresh_token" \in DOMAIN data \/ "access_token" \in DOMAIN data)
       /\ HasRefreshFlow(bk)
    THEN [ran |-> TRUE,
          token |-> PyOr(DictGet(data, "access_token"),
                         DictGet(data, "refresh_token")),
          data |-> DictUpdate(data, returned),
          saved |-> 1]
    ELSE [ran |-> FALSE, token |-> None, data |-> data, saved |-> 0]

\* refresh_token(self), with `returned` what the backend's extra_data() gives
\* for the refresh response
refresh_token(data, bk, returned) ==
    IF "refresh_token" \in DOMAIN data \/ "access_token" \in DOMAIN data
    THEN IF HasRefreshFlow(bk)
         THEN [ran |-> TRUE,
               token |-> PyOr(DictGet(data, "refresh_token"),
                              DictGet(data, "access_token")),
               data |-> DictUpdate(data, returned),
               saved |-> 1]
         ELSE [ran |-> FALSE, token |-> None, data |-> data, saved |-> 0]
    ELSE [ran |-> FALSE, token |-> None, data |-> data, saved |-> 0]

RefreshToken ==
    /\ saves < MaxRefreshCalls
    /\ \E returned \in Dicts(ReturnedKeys, ReturnedValues) :
         LET r == refresh_token(extra_data, backend, returned)
         IN  /\ extra_data' = r.data
             /\ saves' = saves + r.saved
             /\ refresh_last' = [called |-> TRUE, ran |-> r.ran,
                                 token |-> r.token, before |-> extra_data,
                                 returned |-> IF r.ran THEN returned ELSE << >>,
                                 saves_before |-> saves]
    /\ UNCHANGED << backend, NonceVars, SocialVars, ExpireVars, AssocVars,
                    CleanVars >>

InitRefresh ==
    /\ extra_data \in Dicts(RefreshKeys, StoredValues)
    /\ backend \in Backends
    /\ saves = 0
    /\ refresh_last = [called |-> FALSE]
    /\ NonceIdle /\ SocialIdle /\ ExpireIdle /\ AssocIdle /\ CleanIdle

NextRefresh == RefreshToken

SpecRefresh == InitRefresh /\ [][NextRefresh]_vars

\* C7: the backend's refresh flow runs only if extra_data has a
\* 'refresh_token' or 'access_token' key; without either key, or with a backend
\* that has no refresh flow, the backend is not called, extra_data is unchanged
\* and nothing is saved; when it runs it is given the refresh token if that is
\* non-empty and else the access token, the returned data is merged into
\* extra_data (keys not returned keep their values) and the record is saved
\* exactly once.
RefreshOnlyWithToken ==
    refresh_last.called =>
        LET before == refresh_last.before
            returned == refresh_last.returned
            keyed == "refresh_token" \in DOMAIN before
                     \/ "access_token" \in DOMAIN before
            rt == IF "refresh_token" \in DOMAIN before
                  THEN before["refresh_token"] ELSE None
            at == IF "access_token" \in DOMAIN before
                  THEN before["access_token"] ELSE None
        IN  /\ refresh_last.ran => keyed /\ backend.kind = "refresh"
            /\ (~keyed \/ backend.kind # "refresh") =>
                   /\ ~refresh_last.ran
                   /\ extra_data = before
                   /\ saves = refresh_last.saves_before
            /\ refresh_last.ran =>
                   /\ refresh_last.token = (IF rt \notin {None, ""} THEN rt ELSE at)
                   /\ DOMAIN extra_data = (DOMAIN before) \cup (DOMAIN returned)
                   /\ \A k \in DOMAIN returned : extra_data[k] = returned[k]
                   /\ \A k \in (DOMAIN before) \ (DOMAIN returned) :
                          extra_data[k] = before[k]
                   /\ saves = refresh_last.saves_before + 1

\* The flow ran with an empty refresh token, so on the access token, and the
\* returned data replaced one key and left another alone.
RefreshRanOnAccessToken ==
    /\ refresh_last.called
    /\ refresh_last.ran
    /\ "refresh_token" \in DOMAIN refresh_last.before
    /\ refresh_last.before["refresh_token"] = ""
    /\ refresh_last.token = "old"
    /\ DOMAIN refresh_last.returned = {"access_token"}
    /\ "expires" \in DOMAIN extra_data
    /\ extra_data["access_token"] = "new"


\* ========================================================================
\* Identity records: create_social_auth, get_social_auth,
\* allowed_to_disconnect
\* ========================================================================
MaxSocialAuths == 3

UserNames == {"alice", "bob"}
Providers == {"google", "facebook"}

\* A user object as allowed_to_disconnect sees it: whether it has a
\* has_usable_password method, and whether the account's password is usable
\* (what the method returns when it is there).
UserObjects == [name : UserNames, has_check : BOOLEAN, usable : BOOLEAN]

\* uid arguments: strings and non-strings
UidInputs == {IntValue(7), IntValue(42), [t |-> "str", s |-> "7"],
              [t |-> "str", s |-> "42"]}

NoId == [given |-> FALSE]
GivenId(n) == [given |-> TRUE, id |-> n]

DigitStr(d) ==
    CASE d = 0 -> "0" [] d = 1 -> "1" [] d = 2 -> "2" [] d = 3 -> "3"
      [] d = 4 -> "4" [] d = 5 -> "5" [] d = 6 -> "6" [] d = 7 -> "7"
      [] d = 8 -> "8" [] d = 9 -> "9"

RECURSIVE NatToStr(_)
NatToStr(n) == IF n < 10 THEN DigitStr(n) ELSE NatToStr(n \div 10) \o DigitStr(n % 10)

\* if not isinstance(uid, str): uid = str(uid)
UidStr(uid) ==
    IF uid.t = "str" THEN uid.s
    ELSE IF uid.v < 0 THEN "-" \o NatToStr(0 - uid.v) ELSE NatToStr(uid.v)

\* The UserSocialAuth table's uniqueness constraint on (provider, uid): the
\* insert of a second record for the pair is rejected.
UniqueProviderUid(store, provider, uid) ==
    \A r \in store : ~(r.provider = provider /\ r.uid = uid)

\* cls.objects.create(user=user, uid=uid, provider=provider) after the uid
\* conversion
create_social_auth(store, user, uid, provider) ==
    LET u == UidStr(uid)
    IN  IF UniqueProviderUid(store, provider, u)
        THEN [store |-> store \cup {[id |-> Cardinality(store) + 1, user |-> user,
                                     provider |-> provider, uid |-> u]},
              ret |-> "created"]
        ELSE [store |-> store, ret |-> "IntegrityError"]

\* cls.objects.filter(provider=provider): the uid left out of the query
social_auth_matches_provider_only(store, provider, uid) ==
    {r \in store : r.provider = provider}

\* The records cls.objects.get(provider=provider, uid=uid) matches, after the
\* uid conversion
social_auth_matches(store, provider, uid) ==
    {r \in store : r.provider = provider /\ r.uid = UidStr(uid)}

\* get_social_auth: the record, None on DoesNotExist; get() raises
\* MultipleObjectsReturned on several matches
get_social_auth(store, provider, uid) ==
    LET found == social_auth_matches(store, provider, uid)
    IN  IF found = {} THEN [kind |-> "None"]
        ELSE IF Cardinality(found) = 1
             THEN [kind |-> "record", rec |-> CHOOSE r \in found : TRUE]
             ELSE [kind |-> "MultipleObjectsReturned"]

\* qs = cls.objects.exclude(...) without the filter(user=user)
allowed_to_disconnect_any_user(store, user, backend_name, association_id) ==
    LET qs == IF association_id.given
              THEN {r \in store : r.id # association_id.id}
              ELSE {r \in store : r.provider # backend_name}
        valid_password == IF user.has_check THEN user.usable ELSE TRUE
    IN  valid_password \/ Cardinality(qs) > 0

allowed_to_disconnect(store, user, backend_name, association_id) ==
    LET excluded == IF association_id.given
                    THEN {r \in store : r.id # association_id.id}
                    ELSE {r \in store : r.provider # backend_name}
        qs == {r \in excluded : r.user = user.name}
        valid_password == IF user.has_check THEN user.usable ELSE TRUE
    IN  valid_password \/ Cardinality(qs) > 0

CreateSocialAuth ==
    /\ Cardinality(social_auths) < MaxSocialAuths
    /\ \E user \in UserNames, uid \in UidInputs, provider \in Providers :
         LET r == create_social_auth(social_auths, user, uid, provider)
         IN  /\ social_auths' = r.store
             /\ social_last' = [op |-> "create", user |-> user, uid |-> uid,
                                provider |-> provider, ret |-> r.ret]
    /\ UNCHANGED << NonceVars, ExpireVars, AssocVars, RefreshVars, CleanVars >>

GetSocialAuth ==
    /\ \E uid \in UidInputs, provider \in Providers :
         social_last' = [op |-> "get", uid |-> uid, provider |-> provider,
                         ret |-> get_social_auth(social_auths, provider, uid)]
    /\ UNCHANGED << social_auths, NonceVars, ExpireVars, AssocVars, RefreshVars,
                    CleanVars >>

AllowedToDisconnect ==
    /\ \E user \in UserObjects, backend_name \in Providers,
          association_id \in {NoId} \cup {GivenId(n) : n \in 1..(MaxSocialAuths + 1)} :
         social_last' = [op |-> "disconnect", user |-> user,
                         backend_name |-> backend_name,
                         association_id |-> association_id,
                         ret |-> allowed_to_disconnect(social_auths, user,
                                                       backend_name,
                                                       association_id)]
    /\ UNCHANGED << social_auths, NonceVars, ExpireVars, AssocVars, RefreshVars,
                    CleanVars >>

InitSocial == SocialIdle /\ NonceIdle /\ ExpireIdle /\ AssocIdle /\ RefreshIdle
              /\ CleanIdle

NextSocial == CreateSocialAuth \/ GetSocialAuth \/ AllowedToDisconnect

SpecSocial == InitSocial /\ [][NextSocial]_vars

\* The user's records, and whether one is left besides "the one being
\* removed": the record with the given id, or else the user's record of the
\* provider.
RecordsOf(name) == {r \in social_auths : r.user = name}

HasOtherThanTheOneRemoved(name, backend_name, association_id) ==
    IF association_id.given
    THEN \E r \in RecordsOf(name) : r.id # association_id.id
    ELSE Cardinality(RecordsOf(name)) >
             (IF \E r \in RecordsOf(name) : r.provider = backend_name
              THEN 1 ELSE 0)

\* C2 as stated: allowed_to_disconnect returns false if and only if the user
\* has no usable password and no linked identity record other than the one
\* being removed, also for a user object without a usable-password check and
\* for a user with several identities of one provider.
DisconnectRefusedIffNoOtherPath ==
    social_last.op = "disconnect" =>
        (social_last.ret = FALSE <=>
            /\ ~social_last.user.usable
            /\ ~HasOtherThanTheOneRemoved(social_last.user.name,
                                          social_last.backend_name,
                                          social_last.association_id))

\* The records the disconnect removes: the one with the given id, or else
\* every record of the provider.
RemovedByDisconnect(backend_name, association_id) ==
    IF association_id.given
    THEN {r \in social_auths : r.id = association_id.id}
    ELSE {r \in social_auths : r.provider = backend_name}

\* C2 amended: allowed_to_disconnect returns false if and only if the user
\* object has a usable-password check that reports no usable password and the
\* user has no linked identity record outside those being removed (the record
\* with the given association id, or else every record of the provider).
DisconnectRefusedIffCheckedAndNoneLeft ==
    social_last.op = "disconnect" =>
        (social_last.ret = FALSE <=>
            /\ social_last.user.has_check
            /\ ~social_last.user.usable
            /\ RecordsOf(social_last.user.name)
                   \ RemovedByDisconnect(social_last.backend_name,
                                         social_last.association_id) = {})

\* A disconnect by association id is refused for a user whose only record is
\* the one named, while another user holds records too.
DisconnectRefusedSoleRecord ==
    /\ social_last.op = "disconnect"
    /\ social_last.ret = FALSE
    /\ social_last.association_id.given
    /\ \E r \in RecordsOf(social_last.user.name) :
           r.id = social_last.association_id.id
    /\ \E r \in social_auths : r.user # social_last.user.name

MaxAssocId == 3

\* ---- base64.encodestring / base64.decodestring ----
\* Bytes are 0..255.  Encoded text is a sequence of symbols: 0..63 are the
\* letters of the base64 alphabet by index, 64 is '=' and 65 is '\n'.
MAXBINSIZE == 57

RECURSIVE EncodeGroups(_)
\* Three bytes to four letters; a last group of one or two bytes is padded.
EncodeGroups(bytes) ==
    IF bytes = << >> THEN << >>
    ELSE IF Len(bytes) = 1
         THEN << bytes[1] \div 4, (bytes[1] % 4) * 16, 64, 64 >>
    ELSE IF Len(bytes) = 2
         THEN << bytes[1] \div 4, (bytes[1] % 4) * 16 + bytes[2] \div 16,
                 (bytes[2] % 16) * 4, 64 >>
    ELSE << bytes[1] \div 4, (bytes[1] % 4) * 16 + bytes[2] \div 16,
            (bytes[2] % 16) * 4 + bytes[3] \div 64, bytes[3] % 64 >>
         \o EncodeGroups(SubSeq(bytes, 4, Len(bytes)))

\* binascii.b2a_base64(chunk): one line, newline-terminated
b2a_base64(chunk) == EncodeGroups(chunk) \o << 65 >>

RECURSIVE encodestring(_)
\* base64.encodestring(s): a line per MAXBINSIZE bytes
encodestring(s) ==
    IF s = << >> THEN << >>
    ELSE IF Len(s) <= MAXBINSIZE THEN b2a_base64(s)
    ELSE b2a_base64(SubSeq(s, 1, MAXBINSIZE))
         \o encodestring(SubSeq(s, MAXBINSIZE + 1, Len(s)))

IsBase64Symbol(c) == c <= 64

RECURSIVE DecodeGroups(_)
DecodeGroups(syms) ==
    IF Len(syms) < 4 THEN << >>
    ELSE IF syms[3] = 64
         THEN << syms[1] * 4 + syms[2] \div 16 >>
    ELSE IF syms[4] = 64
         THEN << syms[1] * 4 + syms[2] \div 16,
                 (syms[2] % 16) * 16 + syms[3] \div 4 >>
    ELSE << syms[1] * 4 + syms[2] \div 16,
            (syms[2] % 16) * 16 + syms[3] \div 4,
            (syms[3] % 4) * 64 + syms[4] >>
         \o DecodeGroups(SubSeq(syms, 5, Len(syms)))

\* base64.decodestring(s): characters outside the alphabet are skipped
decodestring(s) == DecodeGroups(SelectSeq(s, IsBase64Symbol))

\* ---- the inputs ----
AssocServers == {"https://op1", "https://op2"}
AssocHandles == {"h1", "h2", "h3"}

Secret60 == [i \in 1..60 |-> (i * 37 + 200) % 256]

OIDAssociation(handle, secret, issued, lifetime, assoc_type) ==
    [handle |-> handle, secret |-> secret, issued |-> issued,
     lifetime |-> lifetime, assoc_type |-> assoc_type]

\* The openid library's association objects handed to store_association
OIDAssociations ==
    {OIDAssociation("h1", << 255, 1 >>, 10, 100, "HMAC-SHA1"),
     OIDAssociation("h1", Secret60, 30, 200, "HMAC-SHA256"),
     OIDAssociation("h2", << 77, 97, 110, 0 >>, 20, 100, "HMAC-SHA1"),
     OIDAssociation("h3", << >>, 20, 14400, "HMAC-SHA256")}

AssocMatches(store, server_url, handle) ==
    {r \in store : r.server_url = server_url /\ r.handle = handle}

\* assoc = Association(**args) in every call: the existing record is not
\* looked up
store_association_always_creates(store, next_id, server_url, association) ==
    [store |-> store \cup {[id |-> next_id, server_url |-> server_url,
                            handle |-> association.handle,
                            secret |-> encodestring(association.secret),
                            issued |-> association.issued,
                            lifetime |-> association.lifetime,
                            assoc_type |-> association.assoc_type]},
     next_id |-> next_id + 1,
     ret |-> "stored"]

\* the update of an existing record leaves its issued time as it was
store_association_keeps_issued(store, next_id, server_url, association) ==
    LET found == AssocMatches(store, server_url, association.handle)
    IN  IF Cardinality(found) > 1
        THEN [store |-> store, next_id |-> next_id,
              ret |-> "MultipleObjectsReturned"]
        ELSE IF found = {}
        THEN [store |-> store \cup {[id |-> next_id, server_url |-> server_url,
                                     handle |-> association.handle,
                                     secret |-> encodestring(association.secret),
                                     issued |-> association.issued,
                                     lifetime |-> association.lifetime,
                                     assoc_type |-> association.assoc_type]},
              next_id |-> next_id + 1,
              ret |-> "stored"]
        ELSE LET assoc == CHOOSE r \in found : TRUE
             IN  [store |-> (store \ {assoc})
                        \cup {[assoc EXCEPT
                                 !.secret = encodestring(association.secret),
                                 !.lifetime = association.lifetime,
                                 !.assoc_type = association.assoc_type]},
                  next_id |-> next_id,
                  ret |-> "stored"]

\* store_association: get the record of (server_url, handle) or make a new
\* one, set its fields, save (a new record gets the next primary key)
store_association(store, next_id, server_url, association) ==
    LET found == AssocMatches(store, server_url, association.handle)
    IN  IF Cardinality(found) > 1
        THEN [store |-> store, next_id |-> next_id,
              ret |-> "MultipleObjectsReturned"]
        ELSE IF found = {}
        THEN [store |-> store \cup {[id |-> next_id, server_url |-> server_url,
                                     handle |-> association.handle,
                                     secret |-> encodestring(association.secret),
                                     issued |-> association.issued,
                                     lifetime |-> association.lifetime,
                                     assoc_type |-> association.assoc_type]},
              next_id |-> next_id + 1,
              ret |-> "stored"]
        ELSE LET assoc == CHOOSE r \in found : TRUE
             IN  [store |-> (store \ {assoc})
                        \cup {[assoc EXCEPT
                                 !.secret = encodestring(association.secret),
                                 !.issued = association.issued,
                                 !.lifetime = association.lifetime,
                                 !.assoc_type = association.assoc_type]},
                  next_id |-> next_id,
                  ret |-> "stored"]

\* remove_association: delete every record of (server_url, handle), return
\* whether there was one
remove_association(store, server_url, handle) ==
    LET assocs == AssocMatches(store, server_url, handle)
    IN  [store |-> store \ assocs, ret |-> assocs # {}]

\* delete_associations: Association.objects.filter(pk__in=ids).delete()
delete_associations(store, ids_to_delete) ==
    {r \in store : r.id \notin ids_to_delete}

\* Association.objects.filter(**args)
AssocFilter(store, server_url, handle) ==
    IF handle # None
    THEN {r \in store : r.server_url = server_url /\ r.handle = handle}
    ELSE {r \in store : r.server_url = server_url}

\* The orders in which the query may yield its rows (the model sets none)
RowOrders(rows) ==
    {f \in [1..Cardinality(rows) -> rows] :
        \A i, j \in 1..Cardinality(rows) : i # j => f[i] # f[j]}

\* (assoc.id, OIDAssociation(...)) of a row
AssocEntry(r) ==
    [id |-> r.id,
     assoc |-> OIDAssociation(r.handle, decodestring(r.secret), r.issued,
                              r.lifetime, r.assoc_type)]

RECURSIVE InsertAscending(_, _)
InsertAscending(sorted, e) ==
    IF sorted = << >> THEN << e >>
    ELSE IF Head(sorted).assoc.issued <= e.assoc.issued
         THEN << Head(sorted) >> \o InsertAscending(Tail(sorted), e)
         ELSE << e >> \o sorted

RECURSIVE SortAscending(_)
SortAscending(entries) ==
    IF entries = << >> THEN << >>
    ELSE InsertAscending(SortAscending(SubSeq(entries, 1, Len(entries) - 1)),
                         entries[Len(entries)])

RECURSIVE InsertDescending(_, _)
\* e goes behind every entry whose issued time is not smaller: equal keys
\* keep their order
InsertDescending(sorted, e) ==
    IF sorted = << >> THEN << e >>
    ELSE IF Head(sorted).assoc.issued >= e.assoc.issued
         THEN << Head(sorted) >> \o InsertDescending(Tail(sorted), e)
         ELSE << e >> \o sorted

RECURSIVE SortDescending(_)
\* sorted(entries, key=lambda x: x[1].issued, reverse=True): stable
SortDescending(entries) ==
    IF entries = << >> THEN << >>
    ELSE InsertDescending(SortDescending(SubSeq(entries, 1, Len(entries) - 1)),
                          entries[Len(entries)])

\* sorted(..., key=lambda x: x[1].issued) without reverse=True
get_oid_associations_ascending(rows) ==
    SortAscending([i \in 1..Len(rows) |-> AssocEntry(rows[i])])

\* get_oid_associations, on the rows the filter yielded, in their order
get_oid_associations(rows) ==
    SortDescending([i \in 1..Len(rows) |-> AssocEntry(rows[i])])

StoreAssociation ==
    /\ \E server_url \in AssocServers, association \in OIDAssociations :
         LET r == store_association(associations, assoc_next_id, server_url,
                                    association)
         IN  /\ r.next_id <= MaxAssocId + 1
             /\ associations' = r.store
             /\ assoc_next_id' = r.next_id
             /\ assoc_last' = [op |-> "store", server_url |-> server_url,
                               association |-> association,
                               before |-> associations, ret |-> r.ret]
    /\ UNCHANGED << NonceVars, SocialVars, ExpireVars, RefreshVars, CleanVars >>

RemoveAssociation ==
    /\ \E server_url \in AssocServers, handle \in AssocHandles :
         LET r == remove_association(associations, server_url, handle)
         IN  /\ associations' = r.store
             /\ assoc_last' = [op |-> "remove", ret |-> r.ret]
    /\ UNCHANGED << assoc_next_id, NonceVars, SocialVars, ExpireVars,
                    RefreshVars, CleanVars >>

DeleteAssociations ==
    /\ \E ids_to_delete \in SUBSET (1..MaxAssocId) :
         /\ associations' = delete_associations(associations, ids_to_delete)
         /\ assoc_last' = [op |-> "delete"]
    /\ UNCHANGED << assoc_next_id, NonceVars, SocialVars, ExpireVars,
                    RefreshVars, CleanVars >>

GetOidAssociations ==
    /\ \E server_url \in AssocServers, handle \in AssocHandles \cup {None} :
         \E rows \in RowOrders(AssocFilter(associations, server_url, handle)) :
            assoc_last' = [op |-> "get", server_url |-> server_url,
                           handle |-> handle,
                           ret |-> get_oid_associations(rows)]
    /\ UNCHANGED << associations, assoc_next_id, NonceVars, SocialVars,
                    ExpireVars, RefreshVars, CleanVars >>

InitAssoc == AssocIdle /\ NonceIdle /\ SocialIdle /\ ExpireIdle /\ RefreshIdle
             /\ CleanIdle

NextAssoc ==
    \/ StoreAssociation
    \/ RemoveAssociation
    \/ DeleteAssociations
    \/ GetOidAssociations

SpecAssoc == InitAssoc /\ [][NextAssoc]_vars

SameKey(r, server_url, handle) == r.server_url = server_url /\ r.handle = handle

\* C5: from an empty store, under store_association, remove_association and
\* delete_associations, at most one association exists per (server_url,
\* handle); a store updates the record of the pair when there is one (no
\* record is added, its id is kept) and creates exactly one record when there
\* is none.
AssocUniquePerKey ==
    /\ \A r1, r2 \in associations :
           SameKey(r1, r2.server_url, r2.handle) => r1 = r2
    /\ assoc_last.op = "store" =>
           LET before == assoc_last.before
               url == assoc_last.server_url
               h == assoc_last.association.handle
               ids(store) == {r.id : r \in store}
           IN  /\ assoc_last.ret = "stored"
               /\ IF \E r \in before : SameKey(r, url, h)
                  THEN ids(associations) = ids(before)
                  ELSE /\ Cardinality(associations) = Cardinality(before) + 1
                       /\ ids(before) \subseteq ids(associations)
                       /\ \E r \in associations :
                              SameKey(r, url, h) /\ r.id \notin ids(before)

\* A store updated the record of its pair, in a table that has lost records.
AssocUpdatedInPlace ==
    /\ assoc_last.op = "store"
    /\ \E r \in assoc_last.before :
           /\ SameKey(r, assoc_last.server_url, assoc_last.association.handle)
           /\ r.issued # assoc_last.association.issued
    /\ Cardinality(associations) >= 2
    /\ assoc_next_id > Cardinality(associations) + 1

\* C6: get_oid_associations(server_url, handle) returns exactly the stored
\* associations of the server (and of the handle when one is given), each with
\* its record id, and every entry's issued time is >= that of the entry after
\* it.
OidAssociationsNewestFirst ==
    assoc_last.op = "get" =>
        LET ret == assoc_last.ret
            wanted == {r \in associations :
                          /\ r.server_url = assoc_last.server_url
                          /\ assoc_last.handle # None => r.handle = assoc_last.handle}
        IN  /\ Len(ret) = Cardinality(wanted)
            /\ {ret[i].id : i \in 1..Len(ret)} = {r.id : r \in wanted}
            /\ \A i \in 1..Len(ret) :
                   \E r \in wanted :
                       /\ r.id = ret[i].id
                       /\ r.handle = ret[i].assoc.handle
                       /\ r.issued = ret[i].assoc.issued
                       /\ r.lifetime = ret[i].assoc.lifetime
                       /\ r.assoc_type = ret[i].assoc.assoc_type
                       /\ r.secret = encodestring(ret[i].assoc.secret)
            /\ \A i \in 1..(Len(ret) - 1) :
                   ret[i].assoc.issued >= ret[i + 1].assoc.issued

\* A query without a handle returned three associations, the newest of them
\* not the first one stored.
ThreeAssociationsReordered ==
    /\ assoc_last.op = "get"
    /\ assoc_last.handle = None
    /\ Len(assoc_last.ret) = 3
    /\ assoc_last.ret[1].id > assoc_last.ret[3].id
    /\ assoc_last.ret[1].assoc.issued > assoc_last.ret[3].assoc.issued

\* C10: right after store_association(server_url, A),
\* get_oid_associations(server_url, A.handle) returns one entry whose handle,
\* decoded secret, issued time, lifetime and association type are those of A,
\* also when the pair held other values before; the records of other pairs are
\* as they were.
StoreThenGetRoundTrip ==
    assoc_last.op = "store" =>
        LET A == assoc_last.association
            url == assoc_last.server_url
            others(store) == {r \in store : ~SameKey(r, url, A.handle)}
        IN  /\ \A rows \in RowOrders(AssocFilter(associations, url, A.handle)) :
                   LET ret == get_oid_associations(rows)
                   IN  /\ Len(ret) = 1
                       /\ ret[1].assoc.handle = A.handle
                       /\ ret[1].assoc.secret = A.secret
                       /\ ret[1].assoc.issued = A.issued
                       /\ ret[1].assoc.lifetime = A.lifetime
                       /\ ret[1].assoc.assoc_type = A.assoc_type
            /\ others(associations) = others(assoc_last.before)

\* The two-line secret replaced another secret, issued time, lifetime and
\* type under its pair, beside the records of two other pairs.
StoredOverOtherValues ==
    /\ assoc_last.op = "store"
    /\ Len(assoc_last.association.secret) > MAXBINSIZE
    /\ \E r \in assoc_last.before :
           /\ SameKey(r, assoc_last.server_url, assoc_last.association.handle)
           /\ r.issued # assoc_last.association.issued
           /\ r.lifetime # assoc_last.association.lifetime
           /\ r.assoc_type # assoc_last.association.assoc_type
           /\ r.secret # encodestring(assoc_last.association.secret)
    /\ Cardinality(associations) = 3

=============================================================================
